---- MODULE Spec2Model ----
(***************************************************************************)
(* Compile-time plugin registration (linkme distributed slice) and the     *)
(* construction of a Context from the registry.                            *)
(*                                                                         *)
(* A run is: the linker places every declared `Plugin` static into the     *)
(* slice PLUGINS in an order of its choosing; the program starts; the      *)
(* program calls Context::new() some number of times, one call at a time,  *)
(* and, being the owner of the contexts it got back, may call the public   *)
(* register_plugin and the public initializer field on them.               *)
(***************************************************************************)
EXTENDS Integers, Sequences, FiniteSets, Bags, TLC

(* ---- bounds ---- *)
MaxRegisterCalls == 2   \* register_plugin calls made by one constructor
MaxContexts == 2        \* calls of Context::new() in one run
MaxOwnerCalls == 1      \* calls the owner makes on contexts it got back

(* ---- the descriptors ---- *)
\* A Plugin static.  `description` has no effect and is left out.  The
\* constructor is a function pointer; what the core can observe of it is
\* the number of times it calls context.register_plugin(&SELF), which is
\* the field `registers`, and whether it returns or ends in a panic, which
\* is the field `aborts`.  The initializer never touches its context.
AGE_PLUGIN ==
  [name |-> "Age", required |-> TRUE, enabled |-> TRUE, registers |-> 1,
   aborts |-> FALSE]

\* Slip: the name copied from the built-in plugin.
WEIGHT_PLUGIN_CopiedName ==
  [name |-> "Age", required |-> TRUE, enabled |-> TRUE, registers |-> 1,
   aborts |-> FALSE]

WEIGHT_PLUGIN ==
  [name |-> "Weight", required |-> TRUE, enabled |-> TRUE, registers |-> 1,
   aborts |-> FALSE]

\* Statics that may be linked into the program: the two shipped ones and
\* one declared by a further crate.
ShippedStatics == {"AGE_PLUGIN", "WEIGHT_PLUGIN"}

ExtensionStatics == {"EXT_PLUGIN"}

Statics == ShippedStatics \cup ExtensionStatics

PluginNames == {"Age", "Weight", "Height"}

\* The type Plugin.
Plugin ==
  [name : PluginNames, required : BOOLEAN, enabled : BOOLEAN,
   registers : 0..MaxRegisterCalls, aborts : BOOLEAN]

\* The values the static s can have.  The shipped statics are as written;
\* the further crate declares any plugin, of a new name or of the name of
\* the built-in one.
Declaration(s) ==
  IF s = "AGE_PLUGIN" THEN {AGE_PLUGIN}
  ELSE IF s = "WEIGHT_PLUGIN" THEN {WEIGHT_PLUGIN}
  ELSE {p \in Plugin : p.name \in {"Age", "Height"}}

VARIABLES
  statics,     \* the Plugin statics compiled into the program: id -> Plugin
  PLUGINS,     \* the distributed slice: sequence of static ids, link order
  pc,          \* "link", "idle", "loop", "init", "ctor", "aborted"
  contexts,    \* every Context created so far: [plugins, state]
  iter,        \* PLUGINS.iter() of the running new(): elements yielded
  pending,     \* register_plugin calls the running constructor still makes
  calls,       \* per context, per static: calls made with that context
  ownerCalls   \* calls the owner has made on returned contexts

vars == <<statics, PLUGINS, pc, contexts, iter, pending, calls, ownerCalls>>

Linked == DOMAIN statics

Range(s) == {s[i] : i \in DOMAIN s}

\* The context being built by the running new() is the newest one.
cur == Len(contexts)

\* Slip: the slice is walked from its end.
plugin_Reversed == PLUGINS[Len(PLUGINS) + 1 - iter]

\* Slip: the loop body keeps using the first element of the slice.
plugin_First == PLUGINS[1]

\* `plugin` of the loop body at line 89.
plugin == PLUGINS[iter]

(* ---- Context ---- *)
\* Slip: the Vec of the previous context is taken over.
Context_default_Reused ==
  IF contexts = <<>> THEN [plugins |-> <<>>, state |-> "Initializing"]
  ELSE [plugins |-> contexts[cur].plugins, state |-> "Initializing"]

\* #[derive(Default)]: an empty Vec.
Context_default == [plugins |-> <<>>, state |-> "Initializing"]

\* Slip: the name goes to the front of the Vec.
register_plugin_Prepend(context, p) ==
  [context EXCEPT !.plugins = <<p.name>> \o @]

\* Slip: a name already present is not pushed again.
register_plugin_Dedup(context, p) ==
  IF p.name \in Range(context.plugins) THEN context
  ELSE [context EXCEPT !.plugins = Append(@, p.name)]

\* Slip: assignment instead of push.
register_plugin_Overwrite(context, p) ==
  [context EXCEPT !.plugins = <<p.name>>]

\* self.plugins.push(plugin.name)
register_plugin(context, p) ==
  [context EXCEPT !.plugins = Append(@, p.name)]

NoCalls ==
  [init |-> [s \in Linked |-> 0], constructor |-> [s \in Linked |-> 0],
   register |-> [s \in Linked |-> 0], initializer |-> [s \in Linked |-> 0],
   returned |-> [s \in Linked |-> 0], aborted |-> [s \in Linked |-> 0],
   owner |-> 0]

\* Slip: the iterator starts behind the first element.
PLUGINS_iter_SkipsFirst == IF PLUGINS = <<>> THEN 0 ELSE 1

\* Slip: the registry is drained by the first walk and not restartable.
PLUGINS_iter_Consumed == iter

\* PLUGINS.iter(): a fresh iterator over the static slice.
PLUGINS_iter == 0

(* ---- link time ---- *)
Init ==
  /\ \E linked \in SUBSET Statics :
       /\ statics \in {f \in [linked -> Plugin] :
                         \A s \in linked : f[s] \in Declaration(s)}
  /\ PLUGINS = <<>>
  /\ pc = "link"
  /\ contexts = <<>>
  /\ iter = 0
  /\ pending = 0
  /\ calls = <<>>
  /\ ownerCalls = 0

\* Slip: the statics of the core are always placed first.
Link_ShippedFirst(s) ==
  /\ pc = "link"
  /\ s \in Linked \ Range(PLUGINS)
  /\ s \in ExtensionStatics => (ShippedStatics \cap Linked) \subseteq Range(PLUGINS)
  /\ PLUGINS' = Append(PLUGINS, s)
  /\ UNCHANGED <<statics, pc, contexts, iter, pending, calls, ownerCalls>>

\* #[distributed_slice(PLUGINS)]: the linker places one more static.
Link(s) ==
  /\ pc = "link"
  /\ s \in Linked \ Range(PLUGINS)
  /\ PLUGINS' = Append(PLUGINS, s)
  /\ UNCHANGED <<statics, pc, contexts, iter, pending, calls, ownerCalls>>

\* Slip: the slice counts as complete once every name is in it.
Start_ByName ==
  /\ pc = "link"
  /\ {statics[s].name : s \in Range(PLUGINS)} = {statics[s].name : s \in Linked}
  /\ pc' = "idle"
  /\ UNCHANGED <<statics, PLUGINS, contexts, iter, pending, calls, ownerCalls>>

\* The program is loaded: the slice is complete.
Start ==
  /\ pc = "link"
  /\ Range(PLUGINS) = Linked
  /\ pc' = "idle"
  /\ UNCHANGED <<statics, PLUGINS, contexts, iter, pending, calls, ownerCalls>>

(* ---- Context::new() ---- *)
\* Slip: a context is built while the slice is still being filled.
new_Enter_Unloaded ==
  /\ pc \in {"link", "idle"}
  /\ Len(contexts) < MaxContexts
  /\ contexts' = Append(contexts, Context_default)
  /\ calls' = Append(calls, NoCalls)
  /\ iter' = PLUGINS_iter
  /\ pc' = "loop"
  /\ UNCHANGED <<statics, PLUGINS, pending, ownerCalls>>

\* let mut context = Context::default(); for plugin in PLUGINS.iter()
new_Enter ==
  /\ pc = "idle"
  /\ Len(contexts) < MaxContexts
  /\ contexts' = Append(contexts, Context_default)
  /\ calls' = Append(calls, NoCalls)
  /\ iter' = PLUGINS_iter
  /\ pc' = "loop"
  /\ UNCHANGED <<statics, PLUGINS, pending, ownerCalls>>

\* Slip: the next init is started without waiting for the running
\* constructor.
new_Next_Overlapping ==
  /\ pc \in {"loop", "ctor"}
  /\ iter < Len(PLUGINS)
  /\ iter' = iter + 1
  /\ calls' = [calls EXCEPT ![cur].init[PLUGINS[iter + 1]] = @ + 1]
  /\ pc' = "init"
  /\ UNCHANGED <<statics, PLUGINS, contexts, pending, ownerCalls>>

\* The iterator yields the next element and the body calls plugin.init.
new_Next ==
  /\ pc = "loop"
  /\ iter < Len(PLUGINS)
  /\ iter' = iter + 1
  /\ calls' = [calls EXCEPT ![cur].init[PLUGINS[iter + 1]] = @ + 1]
  /\ pc' = "init"
  /\ UNCHANGED <<statics, PLUGINS, contexts, pending, ownerCalls>>

\* Slip: init leaves out the constructor of a plugin that is not enabled.
Plugin_init_SkipsDisabled ==
  /\ pc = "init"
  /\ IF statics[plugin].enabled
       THEN /\ calls' = [calls EXCEPT ![cur].constructor[plugin] = @ + 1]
            /\ pending' = statics[plugin].registers
            /\ pc' = "ctor"
       ELSE /\ calls' = [calls EXCEPT ![cur].returned[plugin] = @ + 1]
            /\ pending' = pending
            /\ pc' = "loop"
  /\ UNCHANGED <<statics, PLUGINS, contexts, iter, ownerCalls>>

\* Slip: init runs the constructor twice.
Plugin_init_Twice ==
  /\ pc = "init"
  /\ calls' = [calls EXCEPT ![cur].constructor[plugin] = @ + 2]
  /\ pending' = 2 * statics[plugin].registers
  /\ pc' = "ctor"
  /\ UNCHANGED <<statics, PLUGINS, contexts, iter, ownerCalls>>

\* Slip: init records the plugin in the context by itself.
Plugin_init_AutoRegisters ==
  /\ pc = "init"
  /\ calls' = [calls EXCEPT ![cur].constructor[plugin] = @ + 1]
  /\ contexts' = [contexts EXCEPT ![cur] = register_plugin(@, statics[plugin])]
  /\ pending' = statics[plugin].registers
  /\ pc' = "ctor"
  /\ UNCHANGED <<statics, PLUGINS, iter, ownerCalls>>

\* Slip: init also runs the initializer.
Plugin_init_CallsInitializer ==
  /\ pc = "init"
  /\ calls' = [calls EXCEPT ![cur].constructor[plugin] = @ + 1,
                            ![cur].initializer[plugin] = @ + 1]
  /\ pending' = statics[plugin].registers
  /\ pc' = "ctor"
  /\ UNCHANGED <<statics, PLUGINS, contexts, iter, ownerCalls>>

\* Plugin::init: (self.constructor)(context)
Plugin_init ==
  /\ pc = "init"
  /\ calls' = [calls EXCEPT ![cur].constructor[plugin] = @ + 1]
  /\ pending' = statics[plugin].registers
  /\ pc' = "ctor"
  /\ UNCHANGED <<statics, PLUGINS, contexts, iter, ownerCalls>>

\* The constructor calls context.register_plugin(&SELF).
constructor_Register ==
  /\ pc = "ctor"
  /\ pending > 0
  /\ contexts' = [contexts EXCEPT ![cur] = register_plugin(@, statics[plugin])]
  /\ calls' = [calls EXCEPT ![cur].register[plugin] = @ + 1]
  /\ pending' = pending - 1
  /\ UNCHANGED <<statics, PLUGINS, pc, iter, ownerCalls>>

\* The constructor, and with it Plugin::init, returns to the loop.
constructor_Return ==
  /\ pc = "ctor"
  /\ pending = 0
  /\ ~statics[plugin].aborts
  /\ calls' = [calls EXCEPT ![cur].returned[plugin] = @ + 1]
  /\ pc' = "loop"
  /\ UNCHANGED <<statics, PLUGINS, contexts, iter, pending, ownerCalls>>

\* Slip: the failure is swallowed and the loop goes on.
constructor_Abort_Swallowed ==
  /\ pc = "ctor"
  /\ statics[plugin].aborts
  /\ calls' = [calls EXCEPT ![cur].aborted[plugin] = @ + 1]
  /\ pc' = "loop"
  /\ UNCHANGED <<statics, PLUGINS, contexts, iter, pending, ownerCalls>>

\* The constructor panics, before or after any of its register_plugin
\* calls.  Nothing in init or new() catches it: the loop is left, the
\* local `context` is dropped and the process ends.
constructor_Abort ==
  /\ pc = "ctor"
  /\ statics[plugin].aborts
  /\ calls' = [calls EXCEPT ![cur].aborted[plugin] = @ + 1]
  /\ pc' = "aborted"
  /\ UNCHANGED <<statics, PLUGINS, contexts, iter, pending, ownerCalls>>

\* Slip: the end of the slice is tested one element too far.
new_Return_PastEnd ==
  /\ pc = "loop"
  /\ iter > Len(PLUGINS)
  /\ contexts' = [contexts EXCEPT ![cur].state = "Ready"]
  /\ pc' = "idle"
  /\ UNCHANGED <<statics, PLUGINS, iter, pending, calls, ownerCalls>>

\* Slip: new() returns with the last element of the slice unvisited.
new_Return_Early ==
  /\ pc = "loop"
  /\ iter + 1 >= Len(PLUGINS)
  /\ contexts' = [contexts EXCEPT ![cur].state = "Ready"]
  /\ pc' = "idle"
  /\ UNCHANGED <<statics, PLUGINS, iter, pending, calls, ownerCalls>>

\* The iterator is exhausted: new() returns `context`.
new_Return ==
  /\ pc = "loop"
  /\ iter >= Len(PLUGINS)
  /\ contexts' = [contexts EXCEPT ![cur].state = "Ready"]
  /\ pc' = "idle"
  /\ UNCHANGED <<statics, PLUGINS, iter, pending, calls, ownerCalls>>

(* ---- the owner of a returned context ---- *)
\* context.register_plugin(&P), called by the code that owns the context.
owner_register_plugin(c, s) ==
  /\ pc = "idle"
  /\ ownerCalls < MaxOwnerCalls
  /\ c \in DOMAIN contexts
  /\ s \in Linked
  /\ contexts' = [contexts EXCEPT ![c] = register_plugin(@, statics[s])]
  /\ calls' = [calls EXCEPT ![c].register[s] = @ + 1, ![c].owner = @ + 1]
  /\ ownerCalls' = ownerCalls + 1
  /\ UNCHANGED <<statics, PLUGINS, pc, iter, pending>>

\* (P.initializer)(&mut context, person_id): the body computes a literal
\* and discards it; the context is not touched.
owner_initializer(c, s) ==
  /\ pc = "idle"
  /\ ownerCalls < MaxOwnerCalls
  /\ c \in DOMAIN contexts
  /\ s \in Linked
  /\ calls' = [calls EXCEPT ![c].initializer[s] = @ + 1]
  /\ ownerCalls' = ownerCalls + 1
  /\ UNCHANGED <<statics, PLUGINS, pc, contexts, iter, pending>>

Next ==
  \/ \E s \in Statics : Link(s)
  \/ Start
  \/ new_Enter
  \/ new_Next
  \/ Plugin_init
  \/ constructor_Register
  \/ constructor_Return
  \/ constructor_Abort
  \/ new_Return
  \/ \E c \in 1..MaxContexts, s \in Statics : owner_register_plugin(c, s)
  \/ \E c \in 1..MaxContexts, s \in Statics : owner_initializer(c, s)

Spec == Init /\ [][Next]_vars

\* new() is straight-line code on one thread: once entered, each of its
\* steps that can be taken is taken.
FairSpec ==
  /\ Spec
  /\ WF_vars(new_Next)
  /\ WF_vars(Plugin_init)
  /\ WF_vars(constructor_Register)
  /\ WF_vars(constructor_Return)
  /\ WF_vars(new_Return)

TypeOK ==
  /\ pc \in {"link", "idle", "loop", "init", "ctor", "aborted"}
  /\ Linked \subseteq Statics
  /\ Range(PLUGINS) \subseteq Linked
  /\ Len(calls) = Len(contexts)
  /\ iter \in 0..Len(PLUGINS)
  /\ pending \in 0..MaxRegisterCalls

(* ---- vocabulary of the properties ---- *)
Ready(c) == contexts[c].state = "Ready"

\* c is as new() returned it: the owner has registered nothing on it.
AsReturned(c) == Ready(c) /\ calls[c].owner = 0

Count(seq, n) == Cardinality({i \in DOMAIN seq : seq[i] = n})

SeqToBag(seq) == [n \in Range(seq) |-> Count(seq, n)]

RECURSIVE Sum(_, _)
Sum(f, S) ==
  IF S = {} THEN 0
  ELSE LET x == CHOOSE y \in S : TRUE IN f[x] + Sum(f, S \ {x})

NamedAs(n) == {s \in Linked : statics[s].name = n}

DeclaredNames == {statics[s].name : s \in Linked}

UniqueNames ==
  \A s, t \in Linked : s # t => statics[s].name # statics[t].name

EachRegisters(k) == \A s \in Linked : statics[s].registers = k

Loaded == pc # "link"

\* C1: with N uniquely named descriptors whose constructors each register
\* once, the context new() returns has exactly N entries, for every link
\* order and for N = 0 as well.
C1_ExactlyNEntries ==
  \A c \in DOMAIN contexts :
    (AsReturned(c) /\ UniqueNames /\ EachRegisters(1))
      => Len(contexts[c].plugins) = Len(PLUGINS)

C1_Witness ==
  \E c \in DOMAIN contexts :
    /\ AsReturned(c) /\ UniqueNames /\ EachRegisters(1)
    /\ Len(PLUGINS) = Cardinality(Statics)
    /\ Len(contexts[c].plugins) = Len(PLUGINS)

\* C2 as stated: the names in the returned context are the names of all
\* descriptors of the registry, whatever the constructors do.
C2_NamesEqualDeclared ==
  \A c \in DOMAIN contexts :
    AsReturned(c) => Range(contexts[c].plugins) = DeclaredNames

\* C2 amended: the names in the returned context are the names of all
\* descriptors of the registry provided every constructor registers its
\* own descriptor at least once and nothing else.
C2_NamesEqualWhenAllRegister ==
  \A c \in DOMAIN contexts :
    (AsReturned(c) /\ \A s \in Linked : statics[s].registers > 0)
      => Range(contexts[c].plugins) = DeclaredNames

C2_Witness ==
  \E c \in DOMAIN contexts :
    /\ AsReturned(c)
    /\ \A s \in Linked : statics[s].registers > 0
    /\ Cardinality(DeclaredNames) >= 2
    /\ Range(contexts[c].plugins) = DeclaredNames

\* C3: in one new() every constructor of the registry runs exactly once,
\* and only from within Plugin::init.
C3_ConstructorOncePerNew ==
  \A c \in DOMAIN contexts : \A s \in Linked :
    /\ calls[c].constructor[s] <= 1
    /\ calls[c].init[s] - calls[c].constructor[s] =
         IF pc = "init" /\ c = cur /\ s = plugin THEN 1 ELSE 0
    /\ Ready(c) => calls[c].constructor[s] = 1

C3_Witness ==
  \E c \in DOMAIN contexts :
    /\ Ready(c)
    /\ Len(PLUGINS) >= 2
    /\ \A s \in Linked : calls[c].constructor[s] = 1 /\ calls[c].init[s] = 1

\* C4 as stated: once new() has returned a context, nothing changes its
\* plugins.
C4_ReadyNeverChanges ==
  [][\A c \in DOMAIN contexts :
       Ready(c) => contexts'[c].plugins = contexts[c].plugins]_vars

\* C4 amended: new() changes only the context it is building; a returned
\* context changes only by a register_plugin call of its owner, and each
\* such call appends one name and keeps what was there.
C4_ReadyChangesOnlyByRegister ==
  [][\A c \in DOMAIN contexts :
       (Ready(c) /\ contexts'[c].plugins # contexts[c].plugins) =>
         /\ pc = "idle" /\ pc' = "idle"
         /\ calls'[c].owner = calls[c].owner + 1
         /\ \E s \in Linked :
              /\ calls'[c].register[s] = calls[c].register[s] + 1
              /\ contexts'[c].plugins =
                   Append(contexts[c].plugins, statics[s].name)]_vars

C4_Witness ==
  \E c \in DOMAIN contexts :
    /\ Ready(c)
    /\ calls[c].owner = 1
    /\ Len(contexts[c].plugins) >= 3

\* C5: every new() over the same registry returns the same multiset of
\* names, the one fixed by the declarations alone and so by no link order;
\* the slice is walked again without being registered again.
C5_SameMultiset ==
  \A c \in DOMAIN contexts :
    AsReturned(c) =>
      /\ \A n \in DeclaredNames :
           Count(contexts[c].plugins, n) =
             Sum([s \in Linked |-> statics[s].registers], NamedAs(n))
      /\ Range(contexts[c].plugins) \subseteq DeclaredNames
      /\ \A d \in DOMAIN contexts :
           AsReturned(d) =>
             SeqToBag(contexts[c].plugins) = SeqToBag(contexts[d].plugins)

C5_Witness ==
  /\ Len(contexts) = 2
  /\ AsReturned(1) /\ AsReturned(2)
  /\ Len(contexts[1].plugins) >= 2
  /\ SeqToBag(contexts[1].plugins) = SeqToBag(contexts[2].plugins)

\* C6: with a constructor that never registers, the others registering
\* once, new() still returns, the context has fewer entries than there are
\* descriptors, one per registering descriptor, and the silent
\* descriptor's name is in it only if a registering descriptor has it too.
C6_OnlyRegistered ==
  \A c \in DOMAIN contexts :
    (/\ AsReturned(c)
     /\ \E s \in Linked : statics[s].registers = 0
     /\ \A s \in Linked : statics[s].registers <= 1)
    =>
     /\ Len(contexts[c].plugins) < Len(PLUGINS)
     /\ Len(contexts[c].plugins) =
          Cardinality({s \in Linked : statics[s].registers = 1})
     /\ \A s \in Linked :
          statics[s].registers = 0 =>
            (statics[s].name \in Range(contexts[c].plugins)
               <=> \E t \in NamedAs(statics[s].name) :
                     statics[t].registers = 1)

C6_Witness ==
  \E c \in DOMAIN contexts :
    /\ AsReturned(c)
    /\ \A s \in Linked : statics[s].registers <= 1
    /\ Len(contexts[c].plugins) = 2
    /\ \E s \in Linked :
         /\ statics[s].registers = 0
         /\ statics[s].name \notin Range(contexts[c].plugins)

\* C7: a register_plugin call puts the descriptor's name at the end and
\* keeps every earlier entry where it was; a second call with the same
\* descriptor puts the name there a second time.
C7_RegisterAppends ==
  /\ [][\A c \in DOMAIN contexts : \A s \in Linked :
          calls'[c].register[s] # calls[c].register[s] =>
            /\ calls'[c].register[s] = calls[c].register[s] + 1
            /\ contexts'[c].plugins =
                 Append(contexts[c].plugins, statics[s].name)]_vars
  /\ [](\A c \in DOMAIN contexts :
          /\ Len(contexts[c].plugins) = Sum(calls[c].register, Linked)
          /\ \A n \in DeclaredNames :
               Count(contexts[c].plugins, n) =
                 Sum(calls[c].register, NamedAs(n)))

C7_Witness ==
  \E c \in DOMAIN contexts : \E s \in Linked :
    /\ calls[c].register[s] = 2
    /\ Cardinality(NamedAs(statics[s].name)) = 1
    /\ Count(contexts[c].plugins, statics[s].name) = 2
    /\ Len(contexts[c].plugins) >= 3

\* C8: two descriptors both named "Age", each registering once: both are
\* in the registry, new() returns, and the context holds "Age" twice.
C8_DuplicateNamesKept ==
  (/\ Loaded
   /\ Cardinality(Linked) = 2
   /\ \A s \in Linked : statics[s].name = "Age" /\ statics[s].registers = 1)
  =>
   /\ Len(PLUGINS) = 2
   /\ \A c \in DOMAIN contexts :
        AsReturned(c) => contexts[c].plugins = <<"Age", "Age">>

C8_Witness ==
  /\ Cardinality(Linked) = 2
  /\ \A s \in Linked : statics[s].name = "Age" /\ statics[s].registers = 1
  /\ Len(PLUGINS) = 2
  /\ \E c \in DOMAIN contexts :
       AsReturned(c) /\ contexts[c].plugins = <<"Age", "Age">>

\* C9: the registry of the two shipped descriptors gives a context of two
\* entries, "Age" and "Weight", in one order or the other.
C9_AgeAndWeight ==
  (/\ Linked = ShippedStatics
   /\ statics["AGE_PLUGIN"].required /\ statics["AGE_PLUGIN"].enabled
   /\ statics["WEIGHT_PLUGIN"].required /\ statics["WEIGHT_PLUGIN"].enabled)
  =>
   \A c \in DOMAIN contexts :
     AsReturned(c) =>
       contexts[c].plugins \in {<<"Age", "Weight">>, <<"Weight", "Age">>}

C9_Witness ==
  /\ Linked = ShippedStatics
  /\ statics["AGE_PLUGIN"].required /\ statics["AGE_PLUGIN"].enabled
  /\ statics["WEIGHT_PLUGIN"].required /\ statics["WEIGHT_PLUGIN"].enabled
  /\ \E c \in DOMAIN contexts :
       AsReturned(c) /\ contexts[c].plugins = <<"Weight", "Age">>

\* C10: from the start of a new() to its return no initializer is run:
\* its count is zero for every descriptor of a context under construction
\* and of a returned context on which the owner has made no call.
C10_InitializerNotCalledByNew ==
  \A c \in DOMAIN contexts :
    (~Ready(c) \/ ownerCalls = 0) =>
      \A s \in Linked : calls[c].initializer[s] = 0

C10_Witness ==
  \E c \in DOMAIN contexts :
    /\ Ready(c)
    /\ ownerCalls = 0
    /\ Len(PLUGINS) >= 2
    /\ \A s \in Linked : calls[c].constructor[s] = 1
                           /\ calls[c].initializer[s] = 0

\* C11: a context is absent, then Initializing, then Ready, and nothing
\* else: it becomes Ready by the step taken when the walk has visited every
\* descriptor, and by every such step; a Ready context stays Ready; a further
\* new() adds a new Initializing context and leaves the registry as it is.
C11_Lifecycle ==
  [][/\ \A c \in DOMAIN contexts :
          /\ c \in DOMAIN contexts'
          /\ Ready(c) => contexts'[c].state = "Ready"
          /\ contexts'[c].state # contexts[c].state =>
               /\ contexts[c].state = "Initializing"
               /\ contexts'[c].state = "Ready"
               /\ c = cur /\ pc = "loop" /\ iter = Len(PLUGINS)
               /\ \A s \in Linked : calls[c].returned[s] = 1
     /\ (pc = "loop" /\ iter = Len(PLUGINS))
          => contexts'[cur].state = "Ready"
     /\ Len(contexts') # Len(contexts) =>
          /\ Len(contexts') = Len(contexts) + 1
          /\ contexts'[Len(contexts')].state = "Initializing"
          /\ \A c \in DOMAIN contexts : Ready(c)
          /\ PLUGINS' = PLUGINS /\ statics' = statics]_vars

C11_Witness ==
  /\ Len(contexts) = 2
  /\ Ready(1) /\ Ready(2)
  /\ Len(PLUGINS) = Cardinality(Statics)

\* C12: the registry is filled before the first new() starts and is frozen
\* from then on: a context exists only once every declared static is in
\* the slice, and no step of the loaded program changes the slice or a
\* static.
C12_RegistryFrozen ==
  /\ [](contexts # <<>> => (Loaded /\ Range(PLUGINS) = Linked))
  /\ [][Loaded => (PLUGINS' = PLUGINS /\ statics' = statics)]_vars
  /\ [][PLUGINS' # PLUGINS => (pc = "link" /\ contexts' = <<>>)]_vars

C12_Witness ==
  /\ pc = "ctor"
  /\ Len(contexts) = 2
  /\ Len(PLUGINS) = Cardinality(Statics)
  /\ Range(PLUGINS) = Linked

\* C13: when a constructor fails inside new(), that new() never returns:
\* its context is never Ready, the process has stopped, and no descriptor
\* behind the failing one has had init or its constructor run.
C13_AbortIsFatal ==
  \A c \in DOMAIN contexts :
    (\E s \in Linked : calls[c].aborted[s] > 0) =>
      /\ ~Ready(c)
      /\ c = cur /\ pc = "aborted"
      /\ calls[c].aborted[plugin] = 1
      /\ \A i \in (iter + 1)..Len(PLUGINS) :
           /\ calls[c].init[PLUGINS[i]] = 0
           /\ calls[c].constructor[PLUGINS[i]] = 0

C13_Witness ==
  /\ pc = "aborted"
  /\ ~Ready(cur)
  /\ iter < Len(PLUGINS)
  /\ Len(contexts[cur].plugins) >= 2

\* C14: once loading is complete the slice has exactly one entry per
\* declared static, same names or not, and so as many entries as there are
\* declarations.
C14_OneEntryPerDeclaration ==
  /\ \A s \in Linked : Count(PLUGINS, s) <= 1
  /\ Loaded =>
       /\ Len(PLUGINS) = Cardinality(Linked)
       /\ \A s \in Linked : Count(PLUGINS, s) = 1

C14_Witness ==
  /\ Loaded
  /\ ~UniqueNames
  /\ Len(PLUGINS) = Cardinality(Statics)

\* C15: with constructors that all return, every new() that is entered
\* returns a Ready context, having visited each descriptor once, no
\* constructor having failed.
C15_NewTerminates ==
  /\ \A c \in 1..MaxContexts :
       (c \in DOMAIN contexts /\ \A s \in Linked : ~statics[s].aborts)
         ~> (c \in DOMAIN contexts /\ Ready(c))
  /\ [](\A c \in DOMAIN contexts :
          Ready(c) => \A s \in Linked :
                        /\ calls[c].init[s] = 1
                        /\ calls[c].returned[s] = 1
                        /\ calls[c].aborted[s] = 0)

C15_Witness ==
  /\ Len(contexts) = 2
  /\ Ready(2)
  /\ Linked = ShippedStatics
  /\ \A s \in Linked : calls[2].init[s] = 1 /\ calls[2].returned[s] = 1

\* Constructors of context c that have been entered and have neither
\* returned nor failed.
Running(c) ==
  Sum(calls[c].constructor, Linked) - Sum(calls[c].returned, Linked)
    - Sum(calls[c].aborted, Linked)

\* C16: at most one constructor is running at any time, the one of the
\* element the loop holds; a context under construction is appended to only
\* by that constructor, one name at a time, and when a constructor has
\* returned every append it made is in the context.
C16_OneConstructorAtATime ==
  /\ [](\A c \in DOMAIN contexts :
          /\ Running(c) \in {0, 1}
          /\ Running(c) = 1 <=> (c = cur /\ pc = "ctor")
          /\ \A s \in Linked :
               calls[c].returned[s] = 1 =>
                 calls[c].register[s] >= statics[s].registers
          /\ Len(contexts[c].plugins) = Sum(calls[c].register, Linked))
  /\ [][\A c \in DOMAIN contexts :
          (~Ready(c) /\ contexts'[c].plugins # contexts[c].plugins) =>
            /\ c = cur /\ pc = "ctor" /\ Running(c) = 1
            /\ contexts'[c].plugins =
                 Append(contexts[c].plugins, statics[plugin].name)]_vars

C16_Witness ==
  /\ pc = "ctor"
  /\ Running(cur) = 1
  /\ iter = Cardinality(Statics)
  /\ Len(contexts[cur].plugins) >= 3

\* C17: new() runs the constructor of every descriptor whatever its flags
\* say, and a descriptor that registers is in the returned context also
\* when it is not enabled or not required.
C17_FlagsIgnored ==
  \A c \in DOMAIN contexts :
    Ready(c) =>
      \A s \in Linked :
        /\ calls[c].constructor[s] = 1
        /\ (~statics[s].enabled \/ ~statics[s].required) =>
             Count(contexts[c].plugins, statics[s].name) >= statics[s].registers

C17_Witness ==
  \E c \in DOMAIN contexts : \E s \in Linked :
    /\ Ready(c)
    /\ ~statics[s].enabled
    /\ statics[s].registers = 1
    /\ calls[c].constructor[s] = 1
    /\ Cardinality(NamedAs(statics[s].name)) = 1
    /\ statics[s].name \in Range(contexts[c].plugins)

Position(s) == CHOOSE i \in DOMAIN PLUGINS : PLUGINS[i] = s

\* Some descriptor visited no later than the running one has the name n
\* and registers it.
NameDueBy(n) ==
  \E i \in 1..iter : statics[PLUGINS[i]].name = n
                       /\ statics[PLUGINS[i]].registers > 0

\* C18 as stated, for every pair of descriptors: the linker may place the
\* statics in any order, and while the constructor of A runs the name of B
\* is in the context if B was visited before A and is not there if neither
\* B nor a descriptor of its name was visited yet.
C18_EitherOrderForAnyPair ==
  /\ pc = "link" => \A s \in Linked \ Range(PLUGINS) : ENABLED Link(s)
  /\ pc = "ctor" =>
       \A B \in Linked \ {plugin} :
         /\ Position(B) < iter
              => statics[B].name \in Range(contexts[cur].plugins)
         /\ ~NameDueBy(statics[B].name)
              => statics[B].name \notin Range(contexts[cur].plugins)

\* C18 amended, for every pair of descriptors of which B registers: the
\* linker may place the statics in any order, and while the constructor of
\* A runs the name of B is in the context if B was visited before A and is
\* not there if neither B nor a descriptor of its name was visited yet.
C18_EitherOrderForRegisteringPair ==
  /\ pc = "link" => \A s \in Linked \ Range(PLUGINS) : ENABLED Link(s)
  /\ pc = "ctor" =>
       \A B \in Linked \ {plugin} :
         /\ (Position(B) < iter /\ statics[B].registers > 0)
              => statics[B].name \in Range(contexts[cur].plugins)
         /\ ~NameDueBy(statics[B].name)
              => statics[B].name \notin Range(contexts[cur].plugins)

C18_Witness ==
  /\ pc = "ctor"
  /\ Len(contexts[cur].plugins) >= 1
  /\ \E B \in Linked \ {plugin} :
       /\ statics[B].registers > 0
       /\ Position(B) > iter
       /\ statics[B].name \notin Range(contexts[cur].plugins)

NamesOf(seq) == [i \in DOMAIN seq |-> statics[seq[i]].name]

\* C19: when every constructor registers its descriptor once, the names
\* of the returned context are in the order of the walk, and when the k-th
\* constructor starts the context holds the names of the k-1 descriptors
\* visited before, which is a prefix of what new() returns.
C19_OrderIsIterationOrder ==
  EachRegisters(1) =>
    \A c \in DOMAIN contexts :
      /\ AsReturned(c) => contexts[c].plugins = NamesOf(PLUGINS)
      /\ (c = cur /\ (pc = "init" \/ (pc = "ctor" /\ pending = 1))) =>
           /\ contexts[c].plugins = NamesOf(SubSeq(PLUGINS, 1, iter - 1))
           /\ contexts[c].plugins =
                SubSeq(NamesOf(PLUGINS), 1, Len(contexts[c].plugins))

C19_Witness ==
  /\ EachRegisters(1)
  /\ pc = "init"
  /\ iter = Cardinality(Statics)
  /\ contexts[cur].plugins = NamesOf(SubSeq(PLUGINS, 1, 2))
  /\ Len(contexts) = 2
  /\ contexts[1].plugins = NamesOf(PLUGINS)

\* C20: a step changes the plugins of at most one context, the one being
\* built or the one its owner registers on; a new context starts empty and
\* building it leaves every earlier context as it was.
C20_ContextsIndependent ==
  [][/\ \A c \in DOMAIN contexts :
          contexts'[c].plugins # contexts[c].plugins =>
            /\ \A d \in DOMAIN contexts \ {c} : contexts'[d] = contexts[d]
            /\ \/ c = cur /\ pc = "ctor"
               \/ pc = "idle" /\ calls'[c].owner = calls[c].owner + 1
     /\ Len(contexts') > Len(contexts) =>
          /\ contexts'[Len(contexts')].plugins = <<>>
          /\ \A c \in DOMAIN contexts : contexts'[c] = contexts[c]
     /\ \A c \in DOMAIN contexts :
          (c < cur /\ pc # "idle") => contexts'[c] = contexts[c]]_vars

C20_Witness ==
  /\ Len(contexts) = 2
  /\ Ready(2)
  /\ calls[2].owner = 1
  /\ calls[1].owner = 0
  /\ Len(contexts[1].plugins) >= 2
  /\ Len(contexts[2].plugins) = Len(contexts[1].plugins) + 1
====
